---- MODULE Spec2Model ----
(***************************************************************************)
(* Verification and certificate-issuance workflow of the verifier          *)
(* dashboard (src/src/components/dashboards/VerifierDashboard.tsx) against *)
(* the store tables projects, carbon_credits, certificates and             *)
(* certificate_requests.                                                   *)
(*                                                                         *)
(* Every async handler is cut at its awaits: the step that resolves an     *)
(* await applies the awaited write (or read) to the store and runs the     *)
(* synchronous continuation up to the next await.  A handler invocation    *)
(* keeps the values its closure captured when the button was clicked.      *)
(***************************************************************************)
EXTENDS Integers, Sequences, FiniteSets, TLC

\* ---------------------------------------------------------------- bounds
MaxOps == 2             \* decision operations started over a behaviour
MaxFaults == 1          \* gateway calls that fail over a behaviour
MaxEdits == 1           \* edits of the notes box over a behaviour
MaxInFlight == 2        \* handler invocations awaiting the gateway at a time

\* ------------------------------------------------------------- universe
Projects == {"p1", "p2"}
Requests == {"r1"}
Sessions == {"s1", "s2"}
OpIds    == 1..MaxOps

NULL   == "null"        \* SQL NULL / JS null of a reference or text column
NoTime == 0             \* SQL NULL of a timestamp column
NoNotes == {NULL}       \* verification_notes IS NULL
EmptyNotes == {}        \* the empty string ''
UNDEFINED == "undefined"

PendingStatuses == {"pending", "under_review"}
RejectNotes == "Certificate request rejected"

\* profile?.id of the session's signed-in verifier
Profile(s) == IF s = "s1" THEN "v1" ELSE "v2"

VARIABLES
  projects,             \* table projects:             id -> row
  certificate_requests, \* table certificate_requests: id -> row
  carbon_credits,       \* table carbon_credits: rows in insertion order
  certificates,         \* table certificates:   rows in insertion order
  now,                  \* the wall clock read by new Date() / Date.now()
  pendingProjects,      \* session state (useState)
  selectedProject,      \*   id of the selected Project object, or NULL
  verificationNotes,    \*   draft note: the projects its text was typed under
  certificateRequests,
  stats,
  loading,
  ops,                  \* invocations of handleVerifyProject/handleCertificateRequest
  nextOp,
  fetches,              \* invocations of fetchVerifierData in flight
  faults,               \* gateway calls that have failed so far
  edits,                \* edits of the notes box so far
  projWriter,           \* history: op whose update last wrote the project row
  reqWriter,            \* history: op whose update last wrote the request row
  creditBy,             \* history: op that inserted carbon_credits[i]
  certBy                \* history: op that inserted certificates[i]

vars == <<projects, certificate_requests, carbon_credits, certificates, now,
          pendingProjects, selectedProject, verificationNotes,
          certificateRequests, stats, loading, ops, nextOp, fetches,
          faults, edits, projWriter, reqWriter, creditBy, certBy>>

history == <<projWriter, reqWriter, creditBy, certBy>>

\* the outcome of a gateway call as kept in an invocation's history
Outcome(ok) == IF ok THEN "ok" ELSE "failed"

store   == <<projects, certificate_requests, carbon_credits, certificates>>
session == <<pendingProjects, selectedProject, verificationNotes,
             certificateRequests, stats, loading>>

\* ------------------------------------------------------ initial contents
InitProjects ==
  [p \in Projects |->
     [id                 |-> p,
      status             |-> IF p = "p1" THEN "pending" ELSE "under_review",
      estimated_credits  |-> IF p = "p1" THEN 500 ELSE 120,
      submitted_at       |-> IF p = "p1" THEN 2 ELSE 1,
      submitter_id       |-> IF p = "p1" THEN "u1" ELSE "u2",
      verifier_id        |-> NULL,
      verification_notes |-> NoNotes,
      verified_at        |-> NoTime]]

InitRequests ==
  [r \in Requests |->
     [id           |-> r,
      project_id   |-> IF r = "r1" THEN "p2" ELSE "p1",
      requester_id |-> IF r = "r1" THEN "u3" ELSE "u1",
      status       |-> "pending",
      requested_at |-> IF r = "r1" THEN 4 ELSE 3,
      processed_at |-> NoTime,
      processed_by |-> NULL,
      notes        |-> NULL]]

InitStats == [pendingReviews |-> 0, verifiedProjects |-> 0,
              rejectedProjects |-> 0, totalReviewed |-> 0]

NoData == [ok |-> FALSE, rows |-> <<>>]          \* { data: null }

NewFetch(s) == [session |-> s, pc |-> "pending",
                pendingData |-> NoData, certificateRequestsData |-> NoData]

UnusedOp == [kind |-> "none", session |-> NULL, pc |-> "unused", id |-> NULL,
             projectId |-> NULL, status |-> NULL, notes |-> NoNotes,
             reqNotes |-> UNDEFINED, list |-> <<>>, ts |-> NoTime,
             certTime |-> NoTime, toast |-> "none",
             pre |-> NULL, update |-> "none", credit |-> "none",
             cert |-> "none"]

Init ==
  /\ projects = InitProjects
  /\ certificate_requests = InitRequests
  /\ carbon_credits = <<>>
  /\ certificates = <<>>
  /\ now = 10
  /\ pendingProjects = [s \in Sessions |-> <<>>]
  /\ selectedProject = [s \in Sessions |-> NULL]
  /\ verificationNotes = [s \in Sessions |-> EmptyNotes]
  /\ certificateRequests = [s \in Sessions |-> <<>>]
  /\ stats = [s \in Sessions |-> InitStats]
  /\ loading = [s \in Sessions |-> TRUE]
  /\ ops = [o \in OpIds |-> UnusedOp]
  /\ nextOp = 1
  /\ fetches = <<NewFetch("s1"), NewFetch("s2")>>     \* useEffect on mount
  /\ faults = 0
  /\ edits = 0
  /\ projWriter = [p \in Projects |-> 0]
  /\ reqWriter = [r \in Requests |-> 0]
  /\ creditBy = <<>>
  /\ certBy = <<>>

\* -------------------------------------------------------------- helpers
Ids(list) == {list[i].id : i \in 1..Len(list)}

\* Array.prototype.find(p => p.id === id): the first match ...
Find(list, id) ==
  LET hits == {i \in 1..Len(list) : list[i].id = id}
  IN  list[CHOOSE i \in hits : \A j \in hits : i <= j]

\* ... which is undefined when nothing matches
Found(list, id) == id \in Ids(list)

RECURSIVE OrderBy(_, _, _)
\* rows of table tbl with ids in S, ascending by the column value key[id]
OrderBy(tbl, S, key) ==
  IF S = {} THEN <<>>
  ELSE LET m == CHOOSE x \in S : \A y \in S : key[x] <= key[y]
       IN  <<tbl[m]>> \o OrderBy(tbl, S \ {m}, key)

\* SelectPendingProjects with the newest submission first
SelectPendingProjectsDescending ==
  OrderBy(projects, {p \in Projects : projects[p].status \in PendingStatuses},
          [p \in Projects |-> 0 - projects[p].submitted_at])

\* .from('projects').in('status', [...]).order('submitted_at', ascending)
SelectPendingProjects ==
  OrderBy(projects, {p \in Projects : projects[p].status \in PendingStatuses},
          [p \in Projects |-> projects[p].submitted_at])

\* .from('certificate_requests').eq('status','pending').order('requested_at')
SelectPendingRequests ==
  OrderBy(certificate_requests,
          {r \in Requests : certificate_requests[r].status = "pending"},
          [r \in Requests |-> certificate_requests[r].requested_at])

\* .from('projects').select('status').not('verifier_id', 'is', null)
SelectReviewedProjects ==
  {p \in Projects : projects[p].verifier_id # NULL}

RemoveAt(seq, i) == SubSeq(seq, 1, i - 1) \o SubSeq(seq, i + 1, Len(seq))

\* a gateway call succeeds or fails; the failure is counted
Gateway(ok) ==
  /\ ok \/ faults < MaxFaults
  /\ faults' = IF ok THEN faults ELSE faults + 1

\* ------------------------------------------------- fetchVerifierData
\* A read that fails resolves to { data: null }; nothing is thrown.
ReadResult(ok, rows) == IF ok THEN [ok |-> TRUE, rows |-> rows] ELSE NoData

\* data || []
OrEmpty(data) == IF data.ok THEN data.rows ELSE <<>>

\* PendingReviews counting only the returned rows that have a verifier
PendingReviewsOfVerifier(pendingData) ==
  IF pendingData.ok
  THEN Cardinality({k \in 1..Len(pendingData.rows) :
                      pendingData.rows[k].verifier_id # NULL})
  ELSE 0

\* pendingData?.length || 0
PendingReviews(pendingData) ==
  IF pendingData.ok THEN Len(pendingData.rows) ELSE 0

\* allProjects?.filter(p => p.status === st).length || 0
CountStatus(ok, allProjects, st) ==
  IF ok THEN Cardinality({p \in allProjects : projects[p].status = st}) ELSE 0

\* ComputeStats adding the pending reviews to the total
ComputeStatsTotalAll(pendingData, ok, allProjects) ==
  LET verifiedCount == CountStatus(ok, allProjects, "verified")
      rejectedCount == CountStatus(ok, allProjects, "rejected")
  IN  [pendingReviews   |-> PendingReviews(pendingData),
       verifiedProjects |-> verifiedCount,
       rejectedProjects |-> rejectedCount,
       totalReviewed    |-> verifiedCount + rejectedCount
                              + PendingReviews(pendingData)]

\* verifiedCount, rejectedCount and the object given to setStats
ComputeStats(pendingData, ok, allProjects) ==
  LET verifiedCount == CountStatus(ok, allProjects, "verified")
      rejectedCount == CountStatus(ok, allProjects, "rejected")
  IN  [pendingReviews   |-> PendingReviews(pendingData),
       verifiedProjects |-> verifiedCount,
       rejectedProjects |-> rejectedCount,
       totalReviewed    |-> verifiedCount + rejectedCount]

\* first await: the pending-projects query resolves
FetchPending(i, outcomes) ==
  /\ i \in 1..Len(fetches)
  /\ fetches[i].pc = "pending"
  /\ \E ok \in outcomes :
       /\ Gateway(ok)
       /\ fetches' = [fetches EXCEPT
                        ![i].pendingData = ReadResult(ok, SelectPendingProjects),
                        ![i].pc = "requests"]
  /\ UNCHANGED <<store, now, session, ops, nextOp, edits, history>>

\* second await: the certificate-requests query resolves
FetchRequests(i, outcomes) ==
  /\ i \in 1..Len(fetches)
  /\ fetches[i].pc = "requests"
  /\ \E ok \in outcomes :
       /\ Gateway(ok)
       /\ fetches' = [fetches EXCEPT
                        ![i].certificateRequestsData =
                           ReadResult(ok, SelectPendingRequests),
                        ![i].pc = "stats"]
  /\ UNCHANGED <<store, now, session, ops, nextOp, edits, history>>

\* third await: the stats query resolves; the three setState calls and the
\* finally block follow synchronously
FetchStats(i, outcomes) ==
  /\ i \in 1..Len(fetches)
  /\ fetches[i].pc = "stats"
  /\ LET f == fetches[i]
         s == f.session
     IN  \E ok \in outcomes :
           /\ Gateway(ok)
           /\ pendingProjects' =
                [pendingProjects EXCEPT ![s] = OrEmpty(f.pendingData)]
           /\ certificateRequests' =
                [certificateRequests EXCEPT
                   ![s] = OrEmpty(f.certificateRequestsData)]
           /\ stats' = [stats EXCEPT
                          ![s] = ComputeStats(f.pendingData, ok,
                                              SelectReviewedProjects)]
           /\ loading' = [loading EXCEPT ![s] = FALSE]
  /\ fetches' = RemoveAt(fetches, i)
  /\ UNCHANGED <<store, now, selectedProject, verificationNotes, ops, nextOp,
                 edits, history>>

\* ------------------------------------------------------ review panel
\* the project cards are rendered from pendingProjects once loading is over
Rendered(s, p) == ~loading[s] /\ p \in Ids(pendingProjects[s])

\* the card of the selected project shows the notes box and the three buttons
PanelOpen(s, p) == Rendered(s, p) /\ selectedProject[s] = p

\* "Review Project": setSelectedProject(project)
ReviewProject(s, p) ==
  /\ Rendered(s, p)
  /\ selectedProject[s] # p
  /\ selectedProject' = [selectedProject EXCEPT ![s] = p]
  /\ UNCHANGED <<store, now, pendingProjects, verificationNotes,
                 certificateRequests, stats, loading, ops, nextOp, fetches,
                 faults, edits, history>>

\* the texts the user can leave in the box while project p is open: nothing,
\* a text typed afresh, or the text found there with something added
Typed(old, p) == {EmptyNotes, {p}, old \cup {p}}

\* Textarea onChange: setVerificationNotes(e.target.value)
EditNotes(s, p) ==
  /\ PanelOpen(s, p)
  /\ edits < MaxEdits
  /\ edits' = edits + 1
  /\ \E text \in Typed(verificationNotes[s], p) :
       /\ text # verificationNotes[s]
       /\ verificationNotes' = [verificationNotes EXCEPT ![s] = text]
  /\ UNCHANGED <<store, now, pendingProjects, selectedProject,
                 certificateRequests, stats, loading, ops, nextOp, fetches,
                 faults, history>>

\* "Cancel": setSelectedProject(null)
Cancel(s, p) ==
  /\ PanelOpen(s, p)
  /\ selectedProject' = [selectedProject EXCEPT ![s] = NULL]
  /\ UNCHANGED <<store, now, pendingProjects, verificationNotes,
                 certificateRequests, stats, loading, ops, nextOp, fetches,
                 faults, edits, history>>

\* ------------------------------------------------ handleVerifyProject
\* VerifiedAt stamping every decision
VerifiedAtAlways(status, t) == t

\* verified_at: status === 'verified' ? new Date().toISOString() : null
VerifiedAt(status, t) == IF status = "verified" THEN t ELSE NoTime

\* ProjectUpdate refusing a row that is no longer pending or under_review
ProjectUpdateIfPending(row, status, verifier, notes, verifiedAt) ==
  IF row.status \in PendingStatuses
  THEN [row EXCEPT !.status = status,
                   !.verifier_id = verifier,
                   !.verification_notes = notes,
                   !.verified_at = verifiedAt]
  ELSE row

\* the row after .update({status, verifier_id, verification_notes,
\* verified_at}).eq('id', projectId)
ProjectUpdate(row, status, verifier, notes, verifiedAt) ==
  [row EXCEPT !.status = status,
              !.verifier_id = verifier,
              !.verification_notes = notes,
              !.verified_at = verifiedAt]

\* UpdateThrows with the error ignored
UpdateNeverThrows(ok) == FALSE

\* if (updateError) throw updateError
UpdateThrows(ok) == ~ok

\* IssuesCredit without the test of the decision
IssuesCreditAlways(status, list, projectId) == Found(list, projectId)

\* IssuesCredit skipping a project that already has a credit
IssuesCreditOnce(status, list, projectId) ==
  /\ status = "verified"
  /\ Found(list, projectId)
  /\ \A i \in 1..Len(carbon_credits) : carbon_credits[i].project_id # projectId

\* if (status === 'verified') { const project = ...find(...); if (project)
IssuesCredit(status, list, projectId) ==
  status = "verified" /\ Found(list, projectId)

\* CreditRow crediting the project itself instead of its submitter
CreditRowToProject(projectId, project) ==
  [project_id     |-> projectId,
   owner_id       |-> project.id,
   credits_amount |-> project.estimated_credits,
   status         |-> "active"]

\* the row inserted into carbon_credits
CreditRow(projectId, project) ==
  [project_id     |-> projectId,
   owner_id       |-> project.submitter_id,
   credits_amount |-> project.estimated_credits,
   status         |-> "active"]

\* CreditThrows with the error only logged, as for the certificate
CreditNeverThrows(ok) == FALSE

\* if (creditError) throw creditError
CreditThrows(ok) == ~ok

\* the row inserted into certificates after the credit
AutoCertificateRow(projectId, generatedBy, t) ==
  [project_id      |-> projectId,
   generated_by    |-> generatedBy,
   certificate_url |-> <<"auto_cert", projectId, t>>]

\* AutoCertificateThrows treating the error like the credit's
AutoCertificateAlsoThrows(ok) == ~ok

\* if (certificateError) { console.error(...) }: logged, nothing thrown
AutoCertificateThrows(ok) == FALSE

\* invocations of the three async handlers that are awaiting the gateway
InFlight ==
  Len(fetches) + Cardinality({o \in OpIds : ops[o].pc \notin {"unused", "done"}})

\* what is kept of an invocation that has returned: its closure is gone
Returned(op, toast) ==
  [op EXCEPT !.pc = "done", !.toast = toast, !.list = <<>>,
             !.notes = NoNotes, !.reqNotes = UNDEFINED, !.ts = NoTime,
             !.certTime = NoTime]

\* "Verify & Approve" / "Reject": the handler builds the update from the
\* values of the render the button belongs to and awaits the write
ClickVerify(s, p, status) ==
  /\ nextOp <= MaxOps
  /\ InFlight < MaxInFlight
  /\ PanelOpen(s, p)
  /\ ops' = [ops EXCEPT ![nextOp] =
               [UnusedOp EXCEPT !.kind = "verify", !.session = s,
                                !.pc = "update", !.id = p, !.projectId = p,
                                !.status = status,
                                !.notes = verificationNotes[s],
                                !.list = pendingProjects[s],
                                !.ts = VerifiedAt(status, now),
                                !.pre = projects[p].status]]
  /\ nextOp' = nextOp + 1
  /\ now' = IF status = "verified" THEN now + 1 ELSE now
  /\ UNCHANGED <<store, session, fetches, faults, edits, history>>

\* toast Success; fetchVerifierData(); setSelectedProject(null);
\* setVerificationNotes('')
VerifySucceeds(o, op) ==
  /\ ops' = [ops EXCEPT ![o] = Returned(op, "success")]
  /\ fetches' = Append(fetches, NewFetch(op.session))
  /\ selectedProject' = [selectedProject EXCEPT ![op.session] = NULL]
  /\ verificationNotes' = [verificationNotes EXCEPT ![op.session] = EmptyNotes]
  /\ UNCHANGED <<pendingProjects, certificateRequests, stats, loading>>

\* catch (error): toast Error
Caught(o, op) ==
  /\ ops' = [ops EXCEPT ![o] = Returned(op, "error")]
  /\ UNCHANGED <<fetches, session>>

\* the project update resolves
VerifyUpdate(o) ==
  /\ ops[o].kind = "verify" /\ ops[o].pc = "update"
  /\ LET op == ops[o]
         p  == op.id
     IN  \E ok \in BOOLEAN :
           /\ Gateway(ok)
           /\ LET op1 == [op EXCEPT !.update = Outcome(ok)]
              IN  /\ projects' =
                       IF ok THEN [projects EXCEPT ![p] =
                                     ProjectUpdate(@, op.status,
                                                   Profile(op.session),
                                                   op.notes, op.ts)]
                       ELSE projects
                  /\ projWriter' = IF ok THEN [projWriter EXCEPT ![p] = o]
                                   ELSE projWriter
                  /\ IF UpdateThrows(ok) THEN Caught(o, op1)
                     ELSE IF IssuesCredit(op.status, op.list, p)
                     THEN /\ ops' = [ops EXCEPT ![o] = [op1 EXCEPT !.pc = "credit"]]
                          /\ UNCHANGED <<fetches, session>>
                     ELSE VerifySucceeds(o, op1)
  /\ UNCHANGED <<certificate_requests, carbon_credits, certificates, now,
                 nextOp, edits, reqWriter, creditBy, certBy>>

\* the carbon_credits insert resolves
VerifyCredit(o) ==
  /\ ops[o].kind = "verify" /\ ops[o].pc = "credit"
  /\ LET op == ops[o]
         p  == op.id
     IN  \E ok \in BOOLEAN :
           /\ Gateway(ok)
           /\ carbon_credits' =
                IF ok THEN Append(carbon_credits,
                                  CreditRow(p, Find(op.list, p)))
                ELSE carbon_credits
           /\ creditBy' = IF ok THEN Append(creditBy, o) ELSE creditBy
           /\ LET op1 == [op EXCEPT !.credit = Outcome(ok)]
              IN  IF CreditThrows(ok)
                  THEN Caught(o, op1) /\ now' = now
                  ELSE /\ ops' = [ops EXCEPT ![o] =
                                    [op1 EXCEPT !.pc = "cert",
                                                !.certTime = now]]
                       /\ now' = now + 1
                       /\ UNCHANGED <<fetches, session>>
  /\ UNCHANGED <<projects, certificate_requests, certificates, nextOp,
                 edits, projWriter, reqWriter, certBy>>

\* the auto-certificate insert resolves
VerifyCert(o) ==
  /\ ops[o].kind = "verify" /\ ops[o].pc = "cert"
  /\ LET op == ops[o]
     IN  \E ok \in BOOLEAN :
           /\ Gateway(ok)
           /\ certificates' =
                IF ok THEN Append(certificates,
                                  AutoCertificateRow(op.id, Profile(op.session),
                                                     op.certTime))
                ELSE certificates
           /\ certBy' = IF ok THEN Append(certBy, o) ELSE certBy
           /\ LET op1 == [op EXCEPT !.cert = Outcome(ok)]
              IN  IF AutoCertificateThrows(ok) THEN Caught(o, op1)
                  ELSE VerifySucceeds(o, op1)
  /\ UNCHANGED <<projects, certificate_requests, carbon_credits, now, nextOp,
                 edits, projWriter, reqWriter, creditBy>>

\* ------------------------------------------- handleCertificateRequest
\* the notes argument of the two buttons
ButtonNotes(status) == IF status = "rejected" THEN RejectNotes ELSE UNDEFINED

\* RequestUpdate recording who and when for an approval only
RequestUpdateApprovalOnly(row, status, t, processor, notes) ==
  [row EXCEPT !.status = status,
              !.processed_at = IF status = "approved" THEN t ELSE @,
              !.processed_by = IF status = "approved" THEN processor ELSE @,
              !.notes = IF notes = UNDEFINED THEN @ ELSE notes]

\* the row after .update({status, processed_at, processed_by, notes});
\* a key whose value is undefined is not sent
RequestUpdate(row, status, t, processor, notes) ==
  [row EXCEPT !.status = status,
              !.processed_at = t,
              !.processed_by = processor,
              !.notes = IF notes = UNDEFINED THEN @ ELSE notes]

\* IssuesCertificate without the test of the decision
IssuesCertificateAlways(status) == TRUE

\* if (status === 'approved')
IssuesCertificate(status) == status = "approved"

\* RequestCertificateRow with its two values exchanged
RequestCertificateRowSwapped(projectId, generatedBy) ==
  [project_id      |-> generatedBy,
   generated_by    |-> projectId,
   certificate_url |-> <<NULL>>]

\* the row inserted into certificates for an approved request
RequestCertificateRow(projectId, generatedBy) ==
  [project_id      |-> projectId,
   generated_by    |-> generatedBy,
   certificate_url |-> <<NULL>>]

\* RequestUpdateThrows with the error ignored
RequestUpdateNeverThrows(ok) == FALSE

\* if (updateError) throw updateError
RequestUpdateThrows(ok) == ~ok

\* CertificateThrows with the error only logged, as in handleVerifyProject
CertificateNeverThrows(ok) == FALSE

\* if (certificateError) throw certificateError
CertificateThrows(ok) == ~ok

\* "Approve Certificate" / "Reject" on a rendered request
ClickRequest(s, r, status) ==
  /\ nextOp <= MaxOps
  /\ InFlight < MaxInFlight
  /\ ~loading[s]
  /\ Found(certificateRequests[s], r)
  /\ ops' = [ops EXCEPT ![nextOp] =
               [UnusedOp EXCEPT !.kind = "request", !.session = s,
                                !.pc = "update", !.id = r,
                                !.projectId =
                                   Find(certificateRequests[s], r).project_id,
                                !.status = status,
                                !.reqNotes = ButtonNotes(status),
                                !.ts = now,
                                !.pre = certificate_requests[r].status]]
  /\ nextOp' = nextOp + 1
  /\ now' = now + 1
  /\ UNCHANGED <<store, session, fetches, faults, edits, history>>

\* toast "Certificate Request Processed"; fetchVerifierData()
RequestSucceeds(o, op) ==
  /\ ops' = [ops EXCEPT ![o] = Returned(op, "success")]
  /\ fetches' = Append(fetches, NewFetch(op.session))
  /\ UNCHANGED session

\* the certificate_requests update resolves
RequestUpdated(o) ==
  /\ ops[o].kind = "request" /\ ops[o].pc = "update"
  /\ LET op == ops[o]
         r  == op.id
     IN  \E ok \in BOOLEAN :
           /\ Gateway(ok)
           /\ LET op1 == [op EXCEPT !.update = Outcome(ok)]
              IN  /\ certificate_requests' =
                       IF ok THEN [certificate_requests EXCEPT ![r] =
                                     RequestUpdate(@, op.status, op.ts,
                                                   Profile(op.session),
                                                   op.reqNotes)]
                       ELSE certificate_requests
                  /\ reqWriter' = IF ok THEN [reqWriter EXCEPT ![r] = o]
                                  ELSE reqWriter
                  /\ IF RequestUpdateThrows(ok) THEN Caught(o, op1)
                     ELSE IF IssuesCertificate(op.status)
                     THEN /\ ops' = [ops EXCEPT ![o] =
                                       [op1 EXCEPT !.pc = "cert"]]
                          /\ UNCHANGED <<fetches, session>>
                     ELSE RequestSucceeds(o, op1)
  /\ UNCHANGED <<projects, carbon_credits, certificates, now, nextOp,
                 edits, projWriter, creditBy, certBy>>

\* the certificates insert resolves
RequestCert(o) ==
  /\ ops[o].kind = "request" /\ ops[o].pc = "cert"
  /\ LET op == ops[o]
     IN  \E ok \in BOOLEAN :
           /\ Gateway(ok)
           /\ certificates' =
                IF ok THEN Append(certificates,
                                  RequestCertificateRow(op.projectId,
                                                        Profile(op.session)))
                ELSE certificates
           /\ certBy' = IF ok THEN Append(certBy, o) ELSE certBy
           /\ LET op1 == [op EXCEPT !.cert = Outcome(ok)]
              IN  IF CertificateThrows(ok) THEN Caught(o, op1)
                  ELSE RequestSucceeds(o, op1)
  /\ UNCHANGED <<projects, certificate_requests, carbon_credits, now, nextOp,
                 edits, projWriter, reqWriter, creditBy>>

\* ---------------------------------------------------------------- system
Next ==
  \/ \E i \in 1..(MaxOps + 2) : FetchPending(i, BOOLEAN)
  \/ \E i \in 1..(MaxOps + 2) : FetchRequests(i, BOOLEAN)
  \/ \E i \in 1..(MaxOps + 2) : FetchStats(i, BOOLEAN)
  \/ \E s \in Sessions, p \in Projects : ReviewProject(s, p)
  \/ \E s \in Sessions, p \in Projects : EditNotes(s, p)
  \/ \E s \in Sessions, p \in Projects : Cancel(s, p)
  \/ \E s \in Sessions, p \in Projects, st \in {"verified", "rejected"} :
       ClickVerify(s, p, st)
  \/ \E o \in OpIds : VerifyUpdate(o)
  \/ \E o \in OpIds : VerifyCredit(o)
  \/ \E o \in OpIds : VerifyCert(o)
  \/ \E s \in Sessions, r \in Requests, st \in {"approved", "rejected"} :
       ClickRequest(s, r, st)
  \/ \E o \in OpIds : RequestUpdated(o)
  \/ \E o \in OpIds : RequestCert(o)

Spec == Init /\ [][Next]_vars

\* The project review alone, with every read of fetchVerifierData answered and
\* the notes box left as it is: handleCertificateRequest reads and writes
\* neither projects nor carbon_credits, and a read that fails only empties the
\* lists the buttons are rendered from.
NextVerify ==
  \/ \E i \in 1..(MaxOps + 2) : FetchPending(i, {TRUE})
  \/ \E i \in 1..(MaxOps + 2) : FetchRequests(i, {TRUE})
  \/ \E i \in 1..(MaxOps + 2) : FetchStats(i, {TRUE})
  \/ \E s \in Sessions, p \in Projects : ReviewProject(s, p)
  \/ \E s \in Sessions, p \in Projects : Cancel(s, p)
  \/ \E s \in Sessions, p \in Projects, st \in {"verified", "rejected"} :
       ClickVerify(s, p, st)
  \/ \E o \in OpIds : VerifyUpdate(o)
  \/ \E o \in OpIds : VerifyCredit(o)
  \/ \E o \in OpIds : VerifyCert(o)

SpecVerify == Init /\ [][NextVerify]_vars

\* The certificate requests alone, with every read of fetchVerifierData
\* answered: handleVerifyProject reads and writes no certificate_requests row.
NextRequest ==
  \/ \E i \in 1..(MaxOps + 2) : FetchPending(i, {TRUE})
  \/ \E i \in 1..(MaxOps + 2) : FetchRequests(i, {TRUE})
  \/ \E i \in 1..(MaxOps + 2) : FetchStats(i, {TRUE})
  \/ \E s \in Sessions, r \in Requests, st \in {"approved", "rejected"} :
       ClickRequest(s, r, st)
  \/ \E o \in OpIds : RequestUpdated(o)
  \/ \E o \in OpIds : RequestCert(o)

SpecRequest == Init /\ [][NextRequest]_vars

\* The decisions of both handlers, with every read of fetchVerifierData
\* answered, the opened panel never cancelled and the notes box left as it is.
NextDecide ==
  \/ \E i \in 1..(MaxOps + 2) : FetchPending(i, {TRUE})
  \/ \E i \in 1..(MaxOps + 2) : FetchRequests(i, {TRUE})
  \/ \E i \in 1..(MaxOps + 2) : FetchStats(i, {TRUE})
  \/ \E s \in Sessions, p \in Projects : ReviewProject(s, p)
  \/ \E s \in Sessions, p \in Projects, st \in {"verified", "rejected"} :
       ClickVerify(s, p, st)
  \/ \E o \in OpIds : VerifyUpdate(o)
  \/ \E o \in OpIds : VerifyCredit(o)
  \/ \E o \in OpIds : VerifyCert(o)
  \/ \E s \in Sessions, r \in Requests, st \in {"approved", "rejected"} :
       ClickRequest(s, r, st)
  \/ \E o \in OpIds : RequestUpdated(o)
  \/ \E o \in OpIds : RequestCert(o)

SpecDecide == Init /\ [][NextDecide]_vars

\* The counters of the dashboard: the project review with each read of
\* fetchVerifierData answered or failed, the opened panel never cancelled.
NextStats ==
  \/ \E i \in 1..(MaxOps + 2) : FetchPending(i, BOOLEAN)
  \/ \E i \in 1..(MaxOps + 2) : FetchRequests(i, BOOLEAN)
  \/ \E i \in 1..(MaxOps + 2) : FetchStats(i, BOOLEAN)
  \/ \E s \in Sessions, p \in Projects : ReviewProject(s, p)
  \/ \E s \in Sessions, p \in Projects, st \in {"verified", "rejected"} :
       ClickVerify(s, p, st)
  \/ \E o \in OpIds : VerifyUpdate(o)
  \/ \E o \in OpIds : VerifyCredit(o)
  \/ \E o \in OpIds : VerifyCert(o)

SpecStats == Init /\ [][NextStats]_vars

\* The notes box: the box edited, the panel cancelled and reopened, and the
\* project decided with "Reject", whose update writes verification_notes as
\* the update of "Verify & Approve" does and is followed by no insert; every
\* read of fetchVerifierData answered.
NextNotes ==
  \/ \E i \in 1..(MaxOps + 2) : FetchPending(i, {TRUE})
  \/ \E i \in 1..(MaxOps + 2) : FetchRequests(i, {TRUE})
  \/ \E i \in 1..(MaxOps + 2) : FetchStats(i, {TRUE})
  \/ \E s \in Sessions, p \in Projects : ReviewProject(s, p)
  \/ \E s \in Sessions, p \in Projects : EditNotes(s, p)
  \/ \E s \in Sessions, p \in Projects : Cancel(s, p)
  \/ \E s \in Sessions, p \in Projects : ClickVerify(s, p, "rejected")
  \/ \E o \in OpIds : VerifyUpdate(o)

SpecNotes == Init /\ [][NextNotes]_vars

\* ======================================================================
\* Properties
\* ======================================================================
\* the rows an invocation inserted
CreditsBy(o) == {i \in 1..Len(carbon_credits) : creditBy[i] = o}
CertsBy(o)   == {i \in 1..Len(certificates) : certBy[i] = o}

\* the carbon_credits rows of a project
CreditsOf(p) == {i \in 1..Len(carbon_credits) : carbon_credits[i].project_id = p}

Verifying(o, status) ==
  /\ ops[o].kind = "verify"
  /\ ops[o].status = status
  /\ ops[o].pre \in PendingStatuses

Processing(o, status) ==
  /\ ops[o].kind = "request"
  /\ ops[o].status = status
  /\ ops[o].pre = "pending"

\* the invocation has returned and none of its writes failed
AllWritesSucceeded(o) ==
  /\ ops[o].pc = "done"
  /\ ops[o].update = "ok"
  /\ ops[o].credit # "failed"
  /\ ops[o].cert # "failed"

\* C1: a handleVerifyProject call with decision verified on a project stored
\* as pending or under_review, all of whose writes succeed, stores the
\* project as verified by the session's verifier with verified_at set (the
\* row reads so for as long as no later update overwrites it), and inserts
\* exactly one carbon credit (project's estimated_credits, owned by the
\* submitter, active) and exactly one certificate generated by the verifier.
C1_VerifiedDecision ==
  \A o \in OpIds :
    (Verifying(o, "verified") /\ AllWritesSucceeded(o)) =>
      LET p == ops[o].id
          v == Profile(ops[o].session)
      IN  /\ ops[o].toast = "success"
          /\ projWriter[p] = o =>
               /\ projects[p].status = "verified"
               /\ projects[p].verifier_id = v
               /\ projects[p].verified_at # NoTime
          /\ Cardinality(CreditsBy(o)) = 1
          /\ \A i \in CreditsBy(o) :
               carbon_credits[i] =
                 [project_id     |-> p,
                  owner_id       |-> projects[p].submitter_id,
                  credits_amount |-> projects[p].estimated_credits,
                  status         |-> "active"]
          /\ Cardinality(CertsBy(o)) = 1
          /\ \A i \in CertsBy(o) :
               /\ certificates[i].project_id = p
               /\ certificates[i].generated_by = v

C1_Witness ==
  \E o \in OpIds :
    /\ Verifying(o, "verified") /\ AllWritesSucceeded(o)
    /\ projWriter[ops[o].id] = o
    /\ CreditsBy(o) # {} /\ CertsBy(o) # {}

\* C2: a handleVerifyProject call with decision rejected on a project stored
\* as pending or under_review whose update succeeds returns at once, stores
\* the project as rejected with verified_at null, and inserts no carbon
\* credit and no certificate.
C2_RejectedDecision ==
  \A o \in OpIds :
    (Verifying(o, "rejected") /\ ops[o].update = "ok") =>
      LET p == ops[o].id
      IN  /\ ops[o].pc = "done"
          /\ ops[o].credit = "none" /\ ops[o].cert = "none"
          /\ CreditsBy(o) = {} /\ CertsBy(o) = {}
          /\ projWriter[p] = o =>
               /\ projects[p].status = "rejected"
               /\ projects[p].verified_at = NoTime

C2_Witness ==
  \E o \in OpIds :
    /\ Verifying(o, "rejected") /\ ops[o].update = "ok"
    /\ projWriter[ops[o].id] = o
    /\ Len(carbon_credits) > 0

\* C3: a handleCertificateRequest call with decision approved on a request
\* stored as pending, all of whose writes succeed, stores the request as
\* approved, processed by the session's verifier with processed_at set, and
\* inserts exactly one certificate, for the request's project and generated
\* by that verifier.
C3_ApprovedRequest ==
  \A o \in OpIds :
    (Processing(o, "approved") /\ AllWritesSucceeded(o)) =>
      LET r == ops[o].id
          v == Profile(ops[o].session)
      IN  /\ ops[o].toast = "success"
          /\ reqWriter[r] = o =>
               /\ certificate_requests[r].status = "approved"
               /\ certificate_requests[r].processed_by = v
               /\ certificate_requests[r].processed_at # NoTime
          /\ Cardinality(CertsBy(o)) = 1
          /\ \A i \in CertsBy(o) :
               /\ certificates[i].project_id = certificate_requests[r].project_id
               /\ certificates[i].generated_by = v

C3_Witness ==
  \E o \in OpIds :
    /\ Processing(o, "approved") /\ AllWritesSucceeded(o)
    /\ reqWriter[ops[o].id] = o
    /\ CertsBy(o) # {}

\* C4: a handleCertificateRequest call with decision rejected on a pending
\* request never inserts a certificate, and once its update has succeeded it
\* has returned with the request stored as rejected.
C4_RejectedRequest ==
  \A o \in OpIds :
    Processing(o, "rejected") =>
      LET r == ops[o].id
      IN  /\ ops[o].cert = "none"
          /\ CertsBy(o) = {}
          /\ ops[o].update = "ok" =>
               /\ ops[o].pc = "done"
               /\ reqWriter[r] = o => certificate_requests[r].status = "rejected"

C4_Witness ==
  \E o \in OpIds :
    /\ Processing(o, "rejected") /\ ops[o].update = "ok"
    /\ reqWriter[ops[o].id] = o

\* C5: once a project is stored as verified or rejected, no step changes its
\* status.
C5_ProjectTerminal ==
  [][\A p \in Projects :
       projects[p].status \in {"verified", "rejected"} =>
         projects'[p].status = projects[p].status]_vars

\* C6: once a certificate request is stored as approved or rejected, no step
\* changes its status, processed_at or processed_by.
C6_RequestTerminal ==
  [][\A r \in Requests :
       certificate_requests[r].status \in {"approved", "rejected"} =>
         /\ certificate_requests'[r].status = certificate_requests[r].status
         /\ certificate_requests'[r].processed_at =
              certificate_requests[r].processed_at
         /\ certificate_requests'[r].processed_by =
              certificate_requests[r].processed_by]_vars

\* C7: whenever no decision is in flight, a project has a carbon credit if
\* and only if it is stored as verified.
C7_CreditIffVerified ==
  (\A o \in OpIds : ops[o].pc \in {"unused", "done"}) =>
    \A p \in Projects :
      (CreditsOf(p) # {}) <=> (projects[p].status = "verified")

\* C8: two handleVerifyProject calls with decision verified on the same
\* project that both return with success have each inserted a carbon credit,
\* so the project has at least two.
C8_NotIdempotent ==
  \A o1, o2 \in OpIds :
    ( /\ o1 # o2
      /\ ops[o1].kind = "verify" /\ ops[o2].kind = "verify"
      /\ ops[o1].status = "verified" /\ ops[o2].status = "verified"
      /\ ops[o1].id = ops[o2].id
      /\ ops[o1].toast = "success" /\ ops[o2].toast = "success" ) =>
        /\ CreditsBy(o1) # {} /\ CreditsBy(o2) # {}
        /\ Cardinality(CreditsOf(ops[o1].id)) >= 2

C8_Witness ==
  \E o1, o2 \in OpIds :
    /\ o1 # o2
    /\ ops[o1].kind = "verify" /\ ops[o2].kind = "verify"
    /\ ops[o1].status = "verified" /\ ops[o2].status = "verified"
    /\ ops[o1].id = ops[o2].id
    /\ ops[o1].toast = "success" /\ ops[o2].toast = "success"
    /\ ops[o1].session # ops[o2].session

\* C9: the step in which the project update of a handleVerifyProject call
\* fails leaves the three tables as they are and ends the call with the
\* error notification.
C9_UpdateFailureAborts ==
  [][\A o \in OpIds :
       ( /\ ops[o].kind = "verify" /\ ops[o].pc = "update"
         /\ ops'[o].update = "failed" ) =>
           /\ projects' = projects
           /\ carbon_credits' = carbon_credits
           /\ certificates' = certificates
           /\ ops'[o].pc = "done"
           /\ ops'[o].toast = "error"]_vars

C9_Witness ==
  \E o \in OpIds :
    /\ ops[o].kind = "verify" /\ ops[o].update = "failed"
    /\ ops[o].pc = "done"
    /\ projWriter[ops[o].id] # o

\* C10: a handleVerifyProject call with decision verified whose update
\* succeeded and whose carbon credit insert failed has returned with the
\* error notification without issuing the certificate insert, and the
\* project stays stored as verified (until a later update overwrites it).
C10_CreditFailure ==
  \A o \in OpIds :
    ( /\ ops[o].kind = "verify" /\ ops[o].status = "verified"
      /\ ops[o].update = "ok" /\ ops[o].credit = "failed" ) =>
        LET p == ops[o].id
        IN  /\ ops[o].pc = "done"
            /\ ops[o].toast = "error"
            /\ ops[o].cert = "none"
            /\ CertsBy(o) = {}
            /\ projWriter[p] = o =>
                 /\ projects[p].status = "verified"
                 /\ projects[p].verified_at # NoTime

C10_Witness ==
  \E o \in OpIds :
    /\ ops[o].kind = "verify" /\ ops[o].status = "verified"
    /\ ops[o].update = "ok" /\ ops[o].credit = "failed"
    /\ projWriter[ops[o].id] = o

\* C11: a handleVerifyProject call with decision verified whose update and
\* carbon credit insert succeeded and whose auto-certificate insert failed
\* has returned with the success notification: its carbon credit is there,
\* it has inserted no certificate, and the project stays stored as verified
\* (until a later update overwrites it).
C11_CertificateFailureSwallowed ==
  \A o \in OpIds :
    ( /\ ops[o].kind = "verify" /\ ops[o].status = "verified"
      /\ ops[o].cert = "failed" ) =>
        LET p == ops[o].id
        IN  /\ ops[o].update = "ok" /\ ops[o].credit = "ok"
            /\ ops[o].pc = "done"
            /\ ops[o].toast = "success"
            /\ Cardinality(CreditsBy(o)) = 1
            /\ CertsBy(o) = {}
            /\ projWriter[p] = o =>
                 /\ projects[p].status = "verified"
                 /\ projects[p].verified_at # NoTime

C11_Witness ==
  \E o \in OpIds :
    /\ ops[o].kind = "verify" /\ ops[o].status = "verified"
    /\ ops[o].cert = "failed"
    /\ projWriter[ops[o].id] = o
    /\ CreditsBy(o) # {}

\* C12: a handleCertificateRequest call with decision approved whose update
\* succeeded and whose certificate insert failed has returned with the error
\* notification and has inserted no certificate, while the request stays
\* stored as approved with processed_at and processed_by set (until a later
\* update overwrites it).
C12_RequestCertificateFailure ==
  \A o \in OpIds :
    ( /\ ops[o].kind = "request" /\ ops[o].status = "approved"
      /\ ops[o].update = "ok" /\ ops[o].cert = "failed" ) =>
        LET r == ops[o].id
        IN  /\ ops[o].pc = "done"
            /\ ops[o].toast = "error"
            /\ CertsBy(o) = {}
            /\ reqWriter[r] = o =>
                 /\ certificate_requests[r].status = "approved"
                 /\ certificate_requests[r].processed_at # NoTime
                 /\ certificate_requests[r].processed_by =
                      Profile(ops[o].session)

C12_Witness ==
  \E o \in OpIds :
    /\ ops[o].kind = "request" /\ ops[o].status = "approved"
    /\ ops[o].update = "ok" /\ ops[o].cert = "failed"
    /\ reqWriter[ops[o].id] = o

\* the invocations of one handler by two sessions that approve the same row
Rivals(kind, status, o1, o2) ==
  /\ o1 # o2
  /\ ops[o1].kind = kind /\ ops[o2].kind = kind
  /\ ops[o1].status = status /\ ops[o2].status = status
  /\ ops[o1].id = ops[o2].id
  /\ ops[o1].session # ops[o2].session

\* the certificates rows inserted for a project
CertsOf(p) == {i \in 1..Len(certificates) : certificates[i].project_id = p}

\* C13: when two sessions each approve the same project (resp. the same
\* certificate request), whatever the interleaving of their writes, no
\* update is refused because of the other one: a write fails only when the
\* gateway fails it; the row carries the values of the update that resolved
\* last; and once both calls have returned with no gateway failure both
\* report success and the store holds a carbon credit and a certificate of
\* each of them for the one project (resp. a certificate of each).
C13_ConcurrentApprovals ==
  /\ \A p \in Projects :
       projWriter[p] # 0 =>
         /\ ops[projWriter[p]].update = "ok"
         /\ projects[p].status = ops[projWriter[p]].status
         /\ projects[p].verifier_id = Profile(ops[projWriter[p]].session)
  /\ \A r \in Requests :
       reqWriter[r] # 0 =>
         /\ ops[reqWriter[r]].update = "ok"
         /\ certificate_requests[r].status = ops[reqWriter[r]].status
         /\ certificate_requests[r].processed_by =
              Profile(ops[reqWriter[r]].session)
  /\ \A o1, o2 \in OpIds :
       /\ Rivals("verify", "verified", o1, o2) =>
            LET p == ops[o1].id
            IN  /\ (ops[o1].update = "ok" \/ ops[o2].update = "ok") =>
                     projWriter[p] # 0
                /\ (ops[o1].update = "failed" \/ ops[o2].update = "failed")
                     => faults > 0
                /\ (ops[o1].pc = "done" /\ ops[o2].pc = "done" /\ faults = 0)
                     => /\ ops[o1].toast = "success"
                        /\ ops[o2].toast = "success"
                        /\ Cardinality(CreditsBy(o1)) = 1
                        /\ Cardinality(CreditsBy(o2)) = 1
                        /\ CreditsBy(o1) \cup CreditsBy(o2) \subseteq CreditsOf(p)
                        /\ Cardinality(CreditsOf(p)) >= 2
                        /\ Cardinality(CertsBy(o1)) = 1
                        /\ Cardinality(CertsBy(o2)) = 1
                        /\ CertsBy(o1) \cup CertsBy(o2) \subseteq CertsOf(p)
       /\ Rivals("request", "approved", o1, o2) =>
            LET r == ops[o1].id
            IN  /\ (ops[o1].update = "ok" \/ ops[o2].update = "ok") =>
                     reqWriter[r] # 0
                /\ (ops[o1].update = "failed" \/ ops[o2].update = "failed")
                     => faults > 0
                /\ (ops[o1].pc = "done" /\ ops[o2].pc = "done" /\ faults = 0)
                     => /\ ops[o1].toast = "success"
                        /\ ops[o2].toast = "success"
                        /\ Cardinality(CertsBy(o1)) = 1
                        /\ Cardinality(CertsBy(o2)) = 1
                        /\ CertsBy(o1) \cup CertsBy(o2) \subseteq
                             CertsOf(certificate_requests[r].project_id)

\* both sessions had clicked before either update resolved, and the store
\* ends with two carbon credits for the one project
C13_Witness ==
  \E o1, o2 \in OpIds :
    /\ Rivals("verify", "verified", o1, o2)
    /\ ops[o1].pre \in PendingStatuses /\ ops[o2].pre \in PendingStatuses
    /\ ops[o1].pc = "done" /\ ops[o2].pc = "done"
    /\ projWriter[ops[o1].id] = o2
    /\ Cardinality(CreditsOf(ops[o1].id)) = 2

\* the same for one certificate request: two certificates
C13_RequestWitness ==
  \E o1, o2 \in OpIds :
    /\ Rivals("request", "approved", o1, o2)
    /\ ops[o1].pre = "pending" /\ ops[o2].pre = "pending"
    /\ ops[o1].pc = "done" /\ ops[o2].pc = "done"
    /\ reqWriter[ops[o1].id] = o2
    /\ Cardinality(CertsOf(ops[o1].projectId)) = 2

\* C14: in every reachable store state every project has verified_at set
\* exactly when its status is verified, and has verifier_id set whenever its
\* status is verified or rejected; this also holds after a decision on a
\* project that had been decided before.
C14_VerifiedAtIffVerified ==
  \A p \in Projects :
    /\ projects[p].verified_at # NoTime <=> projects[p].status = "verified"
    /\ projects[p].status \in {"verified", "rejected"} =>
         projects[p].verifier_id # NULL

\* a project stored as rejected by a decision taken when it was verified
C14_Witness ==
  \E o \in OpIds :
    /\ ops[o].kind = "verify" /\ ops[o].status = "rejected"
    /\ ops[o].pre = "verified"
    /\ ops[o].update = "ok"
    /\ projWriter[ops[o].id] = o
    /\ projects[ops[o].id].status = "rejected"

\* C15: in every reachable store state every certificate request has
\* processed_at and processed_by both set exactly when its status is not
\* pending, after an approval as after a rejection.
C15_ProcessedIffDecided ==
  \A r \in Requests :
    ( /\ certificate_requests[r].processed_at # NoTime
      /\ certificate_requests[r].processed_by # NULL )
      <=> certificate_requests[r].status # "pending"

C15_Witness ==
  \E o \in OpIds :
    /\ ops[o].kind = "request" /\ ops[o].status = "rejected"
    /\ ops[o].update = "ok"
    /\ reqWriter[ops[o].id] = o
    /\ certificate_requests[ops[o].id].status = "rejected"
    /\ certificate_requests[ops[o].id].processed_at # NoTime

\* the step in which invocation i of fetchVerifierData gets the answer of its
\* stats query and sets the state of its session
StatsCommitted(i) ==
  /\ i \in 1..Len(fetches)
  /\ fetches[i].pc = "stats"
  /\ fetches' = RemoveAt(fetches, i)

\* the projects with a verifier that are stored with one of the statuses
ReviewedWith(statuses) ==
  {p \in Projects : /\ projects[p].verifier_id # NULL
                    /\ projects[p].status \in statuses}

\* C16 as stated: the pendingReviews counter set by fetchVerifierData is the
\* number of projects with a non-null verifier_id whose status is pending or
\* under_review. Stated for the fetches that run while no project has been
\* written, so that all their reads see one state of the project set.
C16_PendingAmongReviewed ==
  [][\A i \in 1..Len(fetches) :
       ( /\ StatsCommitted(i)
         /\ fetches[i].pendingData.ok
         /\ faults' = faults
         /\ \A p \in Projects : projWriter[p] = 0 ) =>
           stats'[fetches[i].session].pendingReviews =
             Cardinality(ReviewedWith(PendingStatuses))]_vars

\* C16 amended: the pendingReviews counter of a session is the number of
\* rows its pending query returned, the rows of the list it displays: one
\* row per project that was stored as pending or under_review when the
\* query was answered, whatever its verifier_id, and 0 when that read
\* failed.
C16_PendingReviewsIsListLength ==
  \A s \in Sessions :
    /\ stats[s].pendingReviews = Len(pendingProjects[s])
    /\ Cardinality(Ids(pendingProjects[s])) = Len(pendingProjects[s])
    /\ \A k \in 1..Len(pendingProjects[s]) :
         pendingProjects[s][k].status \in PendingStatuses

\* a session counts one pending review, of a project no verifier has
\* touched, next to one verified project
C16_Witness ==
  \E s \in Sessions :
    /\ ~loading[s]
    /\ stats[s].pendingReviews = 1
    /\ stats[s].verifiedProjects = 1
    /\ pendingProjects[s][1].verifier_id = NULL

\* C17: the list the pending query of fetchVerifierData returns is in
\* ascending order of submitted_at and holds, once each and as stored, exactly
\* the projects whose status is pending or under_review when the query is
\* answered; it holds no project that is verified or rejected at that time.
C17_PendingListSorted ==
  [][\A i \in 1..Len(fetches) :
       ( /\ fetches[i].pc = "pending"
         /\ Len(fetches') = Len(fetches)
         /\ fetches'[i].pc = "requests"
         /\ fetches'[i].pendingData.ok ) =>
           LET rows == fetches'[i].pendingData.rows
           IN  /\ Ids(rows) =
                    {p \in Projects : projects[p].status \in PendingStatuses}
               /\ Len(rows) = Cardinality(Ids(rows))
               /\ \A k \in 1..Len(rows) :
                    /\ rows[k] = projects[rows[k].id]
                    /\ rows[k].status \notin {"verified", "rejected"}
               /\ \A j, k \in 1..Len(rows) :
                    j < k => rows[j].submitted_at <= rows[k].submitted_at]_vars

\* one session still shows both projects, the earlier submission first, and
\* a later query has returned only the project that is not decided
C17_Witness ==
  \E s \in Sessions, i \in 1..Len(fetches), p \in Projects :
    /\ Len(pendingProjects[s]) = 2
    /\ pendingProjects[s][1].submitted_at < pendingProjects[s][2].submitted_at
    /\ fetches[i].pendingData.ok
    /\ Len(fetches[i].pendingData.rows) = 1
    /\ p \notin Ids(fetches[i].pendingData.rows)
    /\ projects[p].status \in {"verified", "rejected"}

\* C18: the stats of every session satisfy totalReviewed = verifiedProjects
\* + rejectedProjects, and fetchVerifierData sets verifiedProjects and
\* rejectedProjects to the numbers of projects with a non-null verifier_id
\* stored as verified and as rejected when its stats query is answered, both
\* 0 when that read fails.
C18_TotalReviewed ==
  /\ [](\A s \in Sessions :
          stats[s].totalReviewed =
            stats[s].verifiedProjects + stats[s].rejectedProjects)
  /\ [][\A i \in 1..Len(fetches) :
          StatsCommitted(i) =>
            LET st == stats'[fetches[i].session]
                ok == faults' = faults
            IN  /\ st.verifiedProjects =
                     IF ok THEN Cardinality(ReviewedWith({"verified"})) ELSE 0
                /\ st.rejectedProjects =
                     IF ok THEN Cardinality(ReviewedWith({"rejected"})) ELSE 0
                /\ st.totalReviewed =
                     st.verifiedProjects + st.rejectedProjects]_vars

\* one project verified, one rejected, two reviewed in total
C18_Witness ==
  \E s \in Sessions :
    /\ stats[s].verifiedProjects = 1
    /\ stats[s].rejectedProjects = 1
    /\ stats[s].totalReviewed = 2

\* the invocations of the two handlers that are awaiting a gateway call
Suspended(o) == ops[o].pc \notin {"unused", "done"}

\* C19: within one session a decision is not reentrant: while a
\* handleVerifyProject or handleCertificateRequest call is suspended at a
\* gateway call no other one is started in the same session, so two calls
\* that are both in flight belong to different sessions.
C19_NonReentrant ==
  \A o1, o2 \in OpIds :
    (o1 # o2 /\ Suspended(o1) /\ Suspended(o2)) =>
      ops[o1].session # ops[o2].session

\* C20: in every invocation the writes are issued in order, each after the
\* one before it succeeded: handleVerifyProject issues the carbon credit
\* insert only after its update succeeded and the auto-certificate insert
\* only after its credit insert succeeded, handleCertificateRequest issues
\* the certificate insert only after its update succeeded; and every
\* auto-generated certificate was inserted by an invocation that also
\* inserted a carbon credit for the same project.
C20_WritesInOrder ==
  /\ \A o \in OpIds :
       /\ ops[o].pc = "unused" =>
            ops[o].update = "none" /\ ops[o].credit = "none"
              /\ ops[o].cert = "none"
       /\ ops[o].pc = "update" =>
            ops[o].update = "none" /\ ops[o].credit = "none"
              /\ ops[o].cert = "none"
       /\ ops[o].pc = "credit" =>
            ops[o].update = "ok" /\ ops[o].credit = "none"
              /\ ops[o].cert = "none"
       /\ ops[o].pc = "cert" =>
            ops[o].update = "ok" /\ ops[o].cert = "none"
       /\ ops[o].credit # "none" => ops[o].update = "ok"
       /\ ops[o].kind = "verify" =>
            /\ ops[o].pc = "cert" => ops[o].credit = "ok"
            /\ ops[o].cert # "none" => ops[o].credit = "ok"
            /\ CreditsBy(o) # {} <=> ops[o].credit = "ok"
       /\ ops[o].kind = "request" =>
            /\ ops[o].credit = "none" /\ CreditsBy(o) = {}
            /\ ops[o].cert # "none" => ops[o].update = "ok"
       /\ CertsBy(o) # {} <=> ops[o].cert = "ok"
  /\ \A i \in 1..Len(certificates) :
       certificates[i].certificate_url[1] = "auto_cert" =>
         LET o == certBy[i]
         IN  /\ ops[o].kind = "verify"
             /\ ops[o].update = "ok"
             /\ \E j \in CreditsBy(o) :
                  carbon_credits[j].project_id = certificates[i].project_id

\* a project verified with its credit and its auto-generated certificate,
\* and a request approved with its certificate
C20_Witness ==
  \E o1, o2 \in OpIds :
    /\ ops[o1].kind = "verify" /\ ops[o1].pc = "done"
    /\ CreditsBy(o1) # {} /\ CertsBy(o1) # {}
    /\ ops[o2].kind = "request" /\ ops[o2].pc = "done"
    /\ CertsBy(o2) # {}

\* the step in which session s presses "Cancel" on its open panel
Cancelled(s) ==
  /\ selectedProject[s] # NULL
  /\ selectedProject'[s] = NULL
  /\ ops' = ops

\* C21: abandoning a review leaves nothing behind: pressing Cancel leaves
\* the store as it is and the notes box of the session empty, so that the
\* verification_notes a handleVerifyProject call has written to a project
\* hold only text typed while that project was the selected one.
C21_CancelLeavesNothing ==
  /\ [][\A s \in Sessions :
          Cancelled(s) =>
            /\ store' = store
            /\ verificationNotes'[s] = EmptyNotes]_vars
  /\ [](\A p \in Projects :
          projWriter[p] # 0 => projects[p].verification_notes \subseteq {p})

\* the conclusion of C21 alone: a project decided with notes typed under
\* another project
C21_NotesOfOtherProject ==
  \E p \in Projects :
    /\ projWriter[p] # 0
    /\ ~(projects[p].verification_notes \subseteq {p})

====
